---- MODULE Spec2Model ----
(***************************************************************************)
(* The dual-mode orchestration layer of keystone: the Mode Router          *)
(* (ApiService, src/src/services/apiService.ts) and the offline pipeline   *)
(* with its two module-level singletons, vectorStore and chatHistory       *)
(* (src/src/services/offlineService.ts).                                   *)
(*                                                                         *)
(* JavaScript runs the code between two awaits without interruption, so    *)
(* one action is one such run: the synchronous start of an async call up   *)
(* to its first await, or the resumption after an awaited promise settled  *)
(* up to the next await (or to the end of the call).                       *)
(***************************************************************************)
EXTENDS Integers, Sequences, FiniteSets, TLC

\* ---------------------------------------------------------------- bounds

\* askQuestion requests issued in one behaviour of Spec; request k carries
\* question k.
MaxAsk == 1

\* askQuestion requests issued in one behaviour of SpecOffline: enough for two
\* requests on one conversation to be in flight at once.
MaxAskOffline == 2

\* askQuestion requests issued in one behaviour of SpecChat: more than
\* HistoryCap, so that the oldest turns are evicted.
MaxAskChat == 12

\* askQuestion requests issued in one behaviour of SpecReplace: turns stored
\* before and after the document is replaced.
MaxAskReplace == 3

\* Messages submitted to the ChatInterface in one behaviour of SpecUI, the
\* dropped ones included.
MaxSubmit == 3

\* Chunks the splitter produces for one file.
ChunksPerFile == 2

\* Tokens of a text given to generateGraphDataFromText.
MaxTokens == 4

\* Pages of a document given to extractTextFromPdf.
MaxPages == 2

\* Text items of a page.
MaxItems == 2

\* ------------------------------------------------------- program constants

\* offlineService.ts:263: "Keep only last 10 exchanges".
HistoryCap == 10

\* ------------------------------------------------------------ input domains

\* The async calls that may be in flight at once; a slot is reused once the
\* caller has taken the result.
Calls == {1, 2}

Files == {"docA", "docB"}

Urls == {"https://youtu.be/x"}

ChatIds == {"c1", "c2"}

Topics == {"DEFINITIONS"}

\* typeof source === 'string'
IsUrl(source) == source \in Urls

\* ------------------------------------------------------------------- errors

Err(msg) == [msg |-> msg, status |-> 0, body |-> ""]

ErrYouTubeOffline == Err("YouTube processing not implemented in offline mode")

ErrYouTubeOnline == Err("YouTube processing is not available with the current backend")

ErrGraphIncluded == Err("Graph data is included in the document processing response. Use processDocument instead.")

ErrProcessPdf == Err("Failed to process PDF for offline use.")

ErrNoDocument == Err("No document has been processed for offline use.")

ErrSummaryOffline == Err("Failed to generate summary offline.")

ErrChatOffline == Err("Failed to get chat response offline.")

ErrSummarizeOffline == Err("Failed to summarize document offline.")

\* window.electronAPI.fetchGraphData rejects (or window.electronAPI is absent)
ErrIpc == Err("ipc graph:fetch failed")

\* The error names the failure and carries neither status nor body text.
HttpErrorBare(status, text) == Err("HTTP error! status")

\* `HTTP error! status: ${response.status} - ${errorText}`
HttpError(status, text) == [msg |-> "HTTP error! status", status |-> status, body |-> text]

NoErr == Err("")

\* The message each router method's catch clause throws.
RouterMessage(op) ==
    CASE op = "processDocument" -> "Failed to process document"
      [] op = "fetchGraphData" -> "Failed to fetch graph data"
      [] op = "askQuestion" -> "Failed to get answer"
      [] op = "getSummary" -> "Failed to generate summary"
      [] op = "getContextualSummary" -> "Failed to generate contextual summary"
      [] op = "summarizeLegalDocument" -> "Failed to summarize document"

\* What the caller of a router method receives when the lower-level step
\* fails with e.  Every router method is
\*     try { if (...) { return lower(...) } else { return lower(...) } }
\*     catch (error) { throw new Error(<RouterMessage>) }
\* The lower-level functions are async: a failure in them is a rejection of
\* the promise they return, and `return promise` without `await` leaves the
\* try block before the promise settles.  The catch clause therefore sees
\* only what is thrown synchronously inside the try block (thrownSync); a
\* rejection passes through to the caller as it is.
RouterCatch(op, e, thrownSync) ==
    IF thrownSync THEN Err(RouterMessage(op)) ELSE e

\* -------------------------------------------------------------------- state

VARIABLES
    isOnline,          \* ApiService.isOnline, the configured flag
    navigatorOnLine,   \* navigator.onLine, read by offlineService.isOnline()
    vectorStore,       \* offlineService.ts:18
    chatHistory,       \* offlineService.ts:19, a Map: conversation id -> turns
    calls,             \* the async calls in flight, one record per slot
    reqNo,             \* askQuestion requests issued so far
    asksLeft,          \* askQuestion requests the client will still issue
    appended,          \* per conversation id, every turn ever pushed, in order
    everProcessed,     \* some processDocument call has succeeded
    inputText,         \* the argument of a generateGraphDataFromText call
    graph,             \* what that call returns
    pdf,               \* the document of an extractTextFromPdf call, as pages of items
    fullText,          \* what that call returns
    chatInterface      \* one mounted ChatInterface: its state hooks and its last render

vars == <<isOnline, navigatorOnLine, vectorStore, chatHistory, calls, reqNo, asksLeft,
          appended, everProcessed, inputText, graph, pdf, fullText, chatInterface>>

\* The two helper functions of the offline pipeline, each studied on its own.
helpers == <<inputText, graph, pdf, fullText>>

\* What only the steps of askQuestion and processDocument change.
counters == <<reqNo, asksLeft, appended, everProcessed>>

\* vectorStore = null
NullStore == [isNull |-> TRUE, memoryVectors |-> {}]

\* The chunks textSplitter.createDocuments produces for the text of a file.
ChunksOf(file) == {<<file, i>> : i \in 1..ChunksPerFile}

\* MemoryVectorStore.fromDocuments(chunks, embeddings): a NEW store holding
\* exactly the embedded chunks.
FromDocuments(chunks) == [isNull |-> FALSE, memoryVectors |-> chunks]

\* chatHistory as a total function: has is Map.has(id), turns is Map.get(id).
NoEntry == [has |-> FALSE, turns |-> <<>>]

NoPrompt == [context |-> {}, history |-> <<>>, question |-> 0]

NoResult == [documentId |-> "", status |-> "", graphData |-> "", answer |-> 0, summary |-> ""]

\* No response of the backend has arrived.
NoResponse == [ok |-> FALSE, status |-> 0, text |-> "", index_name |-> "", graph_data |-> ""]

\* JavaScript values with their type: the number n, and the string of the
\* decimal digits of n ("2" is JsString(2)).
JsNumber(n) == [type |-> "number", val |-> n]

JsString(n) == [type |-> "string", val |-> n]

\* String(v) of a number v: the string of its decimal digits.
NumberToString(v) == JsString(v.val)

\* a === b: no conversion, so values of different types are never equal.
StrictEquals(a, b) == a.type = b.type /\ a.val = b.val

IdleCall ==
    [op |-> "none", pc |-> "idle", route |-> "none", source |-> "", chatId |-> "",
     question |-> 0, topic |-> "", fetches |-> 0, retriever |-> NullStore,
     prompt |-> NoPrompt, wrote |-> FALSE, bare |-> FALSE, err |-> NoErr,
     result |-> NoResult, response |-> NoResponse, clickedNodeId |-> JsString(0),
     overlap |-> FALSE]

\* The contents of chat messages: the welcome text, the text of request n,
\* the answer to request n, and the fixed apology.
Welcome == [kind |-> "welcome", n |-> 0]

QuestionText(n) == [kind |-> "question", n |-> n]

AnswerText(n) == [kind |-> "answer", n |-> n]

Apology == [kind |-> "apology", n |-> 0]

\* A ChatMessage {type, content}; request is the number of the askQuestion
\* request the message belongs to (0 for the welcome message).
ChatMessage(type, content, request) ==
    [type |-> type, content |-> content, request |-> request]

\* ChatInterface.tsx:20-22 after the mount effect (:34-43) has run and the
\* component has rendered: messages holds the welcome message, inputValue
\* is empty, isThinking is false.  rendered is the state the closures of
\* the last render captured (handleMessageSubmission, handleSubmit and the
\* sendMessage handle read isThinking and inputValue from it); fromForm is
\* the set of calls whose handleSubmit is waiting; dropped counts the
\* submissions that returned at the guard.
MountedChatInterface ==
    [messages |-> <<ChatMessage("ai", Welcome, 0)>>,
     inputValue |-> "",
     isThinking |-> FALSE,
     rendered |-> [isThinking |-> FALSE, inputValue |-> ""],
     fromForm |-> {},
     dropped |-> 0]

\* The state after the modules are loaded: `private isOnline: boolean = false`
\* (apiService.ts:15), `vectorStore = null` and an empty Map
\* (offlineService.ts:18-19); asks is the number of askQuestion requests the
\* client is going to issue.
InitWith(asks) ==
    /\ isOnline = FALSE
    /\ navigatorOnLine \in BOOLEAN
    /\ vectorStore = NullStore
    /\ chatHistory = [c \in ChatIds |-> NoEntry]
    /\ calls = [p \in Calls |-> IdleCall]
    /\ reqNo = 0
    /\ asksLeft = asks
    /\ appended = [c \in ChatIds |-> <<>>]
    /\ everProcessed = FALSE
    /\ chatInterface = MountedChatInterface

\* No call of a helper function is under study.
NoGraph == [done |-> FALSE, nodes |-> <<>>, edges |-> <<>>]

NoText == [done |-> FALSE, str |-> <<>>]

NoHelperCall ==
    /\ inputText = <<>>
    /\ graph = NoGraph
    /\ pdf = <<>>
    /\ fullText = NoText

Init == InitWith(MaxAsk) /\ NoHelperCall

\* ---------------------------------------------------------- mode selection

\* The flag is flipped, whatever the argument.
SetOnlineModeToggle(online) ==
    /\ isOnline' = ~isOnline
    /\ UNCHANGED <<chatInterface, helpers, navigatorOnLine, vectorStore, chatHistory, calls, counters>>

\* apiService.ts:37
SetOnlineMode(online) ==
    /\ isOnline' = online
    /\ UNCHANGED <<chatInterface, helpers, navigatorOnLine, vectorStore, chatHistory, calls, counters>>

\* The platform's connectivity changes (the 'online'/'offline' window events).
ConnectivityChange ==
    /\ navigatorOnLine' = ~navigatorOnLine
    /\ UNCHANGED <<chatInterface, helpers, isOnline, vectorStore, chatHistory, calls, counters>>

\* The connectivity test is inverted.
UseOnlineWhenDisconnected == isOnline /\ ~navigatorOnLine

\* Mutant of UseOnline: the configured flag is not consulted.
UseOnlineIgnoringFlag == navigatorOnLine

\* this.isOnline && isOnline()
UseOnline == isOnline /\ navigatorOnLine

\* fetchGraphData tests this.isOnline alone.
UseOnlineGraph == isOnline

\* The locals of a call that has settled are gone.
Settled(c) == [c EXCEPT !.retriever = NullStore, !.prompt = NoPrompt]

\* A call that ends with a rejected promise.
Fail(c, e) == [Settled(c) EXCEPT !.pc = "failed", !.err = RouterCatch(c.op, e, FALSE)]

\* A call that ends with a resolved promise.
Done(c, r) == [Settled(c) EXCEPT !.pc = "done", !.result = r]

\* A new call takes the lowest free slot.
FreeSlot(p) ==
    /\ calls[p].pc = "idle"
    /\ \A q \in Calls : q < p => calls[q].pc # "idle"

\* The caller takes the settled promise's value or error; the slot is free
\* for the next call.
Return(p) ==
    /\ calls[p].pc \in {"done", "failed"}
    /\ calls' = [calls EXCEPT ![p] = IdleCall]
    /\ UNCHANGED <<chatInterface, helpers, isOnline, navigatorOnLine, vectorStore, chatHistory, counters>>

\* ------------------------------------------------------------ remote client

\* The first run of an online method: the code up to `await fetch(...)`.
\* fetch is called once, synchronously, before the method suspends.
SendFetch(c) == [c EXCEPT !.route = "online", !.pc = "fetch", !.fetches = @ + 1]

Statuses == {500}

Bodies == {"Internal Server Error"}

\* index_name values of a 2xx body: the empty string (falsy, like a missing
\* field) and a name.
IndexNames == {"", "idx7"}

GraphDatas == {"graph_data"}

\* A response with response.ok false: a status outside 200..299 and a body
\* that response.text() yields.
ErrorResponses ==
    {[NoResponse EXCEPT !.status = status, !.text = text] :
        status \in Statuses, text \in Bodies}

\* The index_name field matters to processDocumentOnline alone.
IndexNamesFor(op) == IF op = "processDocument" THEN IndexNames ELSE {""}

\* A response with response.ok true and the JSON body response.json() yields.
OkResponses(op) ==
    {[NoResponse EXCEPT !.ok = TRUE, !.status = 200, !.index_name = indexName,
                        !.graph_data = graphData] :
        indexName \in IndexNamesFor(op), graphData \in GraphDatas}

\* The document id is the fixed index name that askQuestionOnline sends.
DocumentIdOfFixed(indexName) == "nerv"

\* backendResponse.index_name || 'nerv'
DocumentIdOf(indexName) == IF indexName = "" THEN "nerv" ELSE indexName

\* The value an online method returns from a 2xx response
\* (apiService.ts:195-200, :231-234, :254, :283, :300).
OnlineResult(c, r) ==
    CASE c.op = "processDocument" ->
            [NoResult EXCEPT !.documentId = DocumentIdOf(r.index_name),
                             !.status = "success", !.graphData = r.graph_data]
      [] c.op = "askQuestion" -> [NoResult EXCEPT !.answer = c.question]
      [] OTHER -> [NoResult EXCEPT !.summary = "backend summary"]

\* `await fetch` settles with a response r, which the call record keeps:
\* not ok -> the method reads the body text and throws; ok -> it reads the
\* JSON body and returns.  Nothing sends the request again.
FetchResponds(p) ==
    /\ calls[p].pc = "fetch"
    /\ \/ /\ \E r \in ErrorResponses :
                calls' = [calls EXCEPT ![p] =
                            [Fail(calls[p], HttpError(r.status, r.text))
                                EXCEPT !.response = r]]
          /\ UNCHANGED everProcessed
       \/ /\ \E r \in OkResponses(calls[p].op) :
                calls' = [calls EXCEPT ![p] =
                            [Done(calls[p], OnlineResult(calls[p], r))
                                EXCEPT !.response = r]]
          /\ everProcessed' = (everProcessed \/ calls[p].op = "processDocument")
    /\ UNCHANGED <<chatInterface, helpers, isOnline, navigatorOnLine, vectorStore, chatHistory, reqNo, asksLeft,
                   appended>>

\* ---------------------------------------------------------- processDocument

\* processDocumentOnline up to its first await (apiService.ts:172-185).
ProcessDocumentOnline(c) ==
    IF IsUrl(c.source)
    THEN Fail([c EXCEPT !.route = "online"], ErrYouTubeOnline)
    ELSE SendFetch(c)

\* Some processPdfOffline call is in flight.  A call that starts then
\* overlaps with it, which its record notes (overlap).
PipelineBusy ==
    \E q \in Calls :
        /\ calls[q].op = "processDocument"
        /\ calls[q].pc \in {"extract", "split", "embed"}

\* Mutant of ProcessDocumentOffline: the typeof test is missing and a URL
\* enters the PDF pipeline.
ProcessDocumentOfflineNoTypeTest(c) == [c EXCEPT !.route = "offline", !.pc = "extract"]

\* processDocumentOffline up to its first await (apiService.ts:142-148): the
\* file case enters processPdfOffline, which suspends in extractTextFromPdf.
ProcessDocumentOffline(c) ==
    IF IsUrl(c.source)
    THEN Fail([c EXCEPT !.route = "offline"], ErrYouTubeOffline)
    ELSE [c EXCEPT !.route = "offline", !.pc = "extract", !.overlap = PipelineBusy]

\* apiService.ts:44-55
ProcessDocument(p, source) ==
    /\ FreeSlot(p)
    /\ LET c == [IdleCall EXCEPT !.op = "processDocument", !.source = source]
       IN  calls' = [calls EXCEPT ![p] =
                        IF UseOnline THEN ProcessDocumentOnline(c)
                                     ELSE ProcessDocumentOffline(c)]
    /\ UNCHANGED <<chatInterface, helpers, isOnline, navigatorOnLine, vectorStore, chatHistory, counters>>

\* The error a failing step of an offline function is re-thrown as: each of
\* them awaits inside its own try block, so its catch clause does run.
OfflineError(op) ==
    CASE op = "processDocument" -> ErrProcessPdf
      [] op = "askQuestion" -> ErrChatOffline
      [] op = "summarizeLegalDocument" -> ErrSummarizeOffline
      [] OTHER -> ErrSummaryOffline

\* The text extractTextFromPdf returns for a file, as a prompt context: the
\* one unsplit text, where a retrieval gives chunks <<file, 1>>, <<file, 2>>, ...
FullTextOf(file) == {<<file, 0>>}

\* `await extractTextFromPdf(file)` settles (offlineService.ts:147 and :283).
\* processPdfOffline goes on to split the text; summarizeLegalDocumentOffline
\* invokes the chain with `context: fullText` (:295-297).
Extracted(p) ==
    /\ calls[p].pc = "extract"
    /\ \/ calls' = [calls EXCEPT ![p] =
                IF calls[p].op = "processDocument"
                THEN [calls[p] EXCEPT !.pc = "split"]
                ELSE [calls[p] EXCEPT !.pc = "generate",
                                      !.prompt.context = FullTextOf(calls[p].source)]]
       \/ calls' = [calls EXCEPT ![p] = Fail(@, OfflineError(@.op))]
    /\ UNCHANGED <<chatInterface, helpers, isOnline, navigatorOnLine, vectorStore, chatHistory, counters>>

\* `await textSplitter.createDocuments([fullText])` settles; on success
\* MemoryVectorStore.fromDocuments is called and awaited (offlineService.ts:152-154).
Split(p) ==
    /\ calls[p].pc = "split"
    /\ \/ calls' = [calls EXCEPT ![p].pc = "embed"]
       \/ calls' = [calls EXCEPT ![p] = Fail(@, OfflineError(@.op))]
    /\ UNCHANGED <<chatInterface, helpers, isOnline, navigatorOnLine, vectorStore, chatHistory, counters>>

\* Mutant of AssignStore: a store is assigned only while there is none.
AssignStoreFirstWins(old, chunks, resolved) ==
    IF resolved /\ old.isNull THEN FromDocuments(chunks) ELSE old

\* Mutant of AssignStore: an empty store is assigned before the documents
\* are embedded and added to it, so a failed build leaves the empty store.
AssignStoreEager(old, chunks, resolved) ==
    IF resolved THEN FromDocuments(chunks) ELSE FromDocuments({})

\* Mutant of AssignStore: the chunks are added to the store in place.
AssignStoreAppend(old, chunks, resolved) ==
    IF resolved THEN FromDocuments(old.memoryVectors \cup chunks) ELSE old

\* offlineService.ts:154
\*     vectorStore = await MemoryVectorStore.fromDocuments(chunks, embeddings)
\* The value of vectorStore once the awaited promise has settled: the
\* assignment happens only if fromDocuments resolved, and then with the
\* complete new store.
AssignStore(old, chunks, resolved) ==
    IF resolved THEN FromDocuments(chunks) ELSE old

\* The call has changed the Vector Index or the Conversation Store in this step.
Touched(c) ==
    [c EXCEPT !.wrote = @ \/ vectorStore' # vectorStore \/ chatHistory' # chatHistory]

\* processPdfOffline without the graph of the text in its answer.
OfflineProcessResultNoGraph(c) ==
    [NoResult EXCEPT !.documentId = "local-memory", !.status = "success"]

\* What processDocumentOffline returns: processPdfOffline's index_name
\* "local-memory" as documentId and the graph derived from the text of the
\* call's file, which the model names by the file (offlineService.ts:157-163,
\* apiService.ts:149-154).
OfflineProcessResult(c) ==
    [NoResult EXCEPT !.documentId = "local-memory", !.status = "success",
                     !.graphData = c.source]

\* `await MemoryVectorStore.fromDocuments(...)` settles.  Rejected (an
\* embedding failed): the catch clause re-throws.  Resolved: the new store is
\* assigned and the call runs to its end.  The awaits that lie between the
\* assignment and the caller's resumption wait for nothing outside:
\* generateGraphDataFromText has no await of its own and catches its errors,
\* so its promise is resolved when it is awaited, and the awaits of the
\* callers are on promises resolved in the same turn.  Their resumptions are
\* microtasks of one checkpoint, run before any other task and in the order
\* in which the builds resolved, so they are part of this step.
Embedded(p) ==
    /\ calls[p].pc = "embed"
    /\ UNCHANGED <<chatInterface, helpers, isOnline, navigatorOnLine, chatHistory, reqNo, asksLeft,
                   appended>>
    /\ \/ /\ vectorStore' = AssignStore(vectorStore, ChunksOf(calls[p].source), TRUE)
          /\ calls' = [calls EXCEPT ![p] =
                            Touched(Done(calls[p], OfflineProcessResult(calls[p])))]
          /\ everProcessed' = TRUE
       \/ /\ vectorStore' = AssignStore(vectorStore, ChunksOf(calls[p].source), FALSE)
          /\ calls' = [calls EXCEPT ![p] = Touched(Fail(@, OfflineError(@.op)))]
          /\ UNCHANGED everProcessed

\* ------------------------------------------------ retrieval and generation

\* The retriever is taken without a test of vectorStore.
StartRetrievalUnchecked(c) ==
    [c EXCEPT !.route = "offline", !.pc = "retrieve", !.retriever = vectorStore]

\* The code of getSummaryOffline and chatWithTopicOffline up to the first
\* await (offlineService.ts:177-183, :218-224): the null test, then
\* vectorStore.asRetriever(), which keeps a reference to the store object
\* that vectorStore holds at that moment.  No code mutates a store after
\* fromDocuments returned it, so the reference is modelled by its value.
StartRetrieval(c) ==
    IF vectorStore.isNull
    THEN Fail([c EXCEPT !.route = "offline"], ErrNoDocument)
    ELSE [c EXCEPT !.route = "offline", !.pc = "retrieve", !.retriever = vectorStore]

\* retriever.getRelevantDocuments(query): the most similar chunks of the
\* retriever's store, at most k of them.  The stores of the model hold fewer
\* chunks than k, so the search returns them all.
RelevantDocs(store) == store.memoryVectors

\* history.push(turn) executed twice.
PushTurnTwice(history, turn) == Append(Append(history, turn), turn)

\* Mutant of PushTurn: history.splice(10), which keeps the oldest 10 turns.
PushTurnKeepOldest(history, turn) ==
    LET h == Append(history, turn)
    IN  IF Len(h) > HistoryCap THEN SubSeq(h, 1, HistoryCap) ELSE h

\* offlineService.ts:260-265: history.push(turn), then
\* if (history.length > 10) history.splice(0, history.length - 10).
PushTurn(history, turn) ==
    LET h == Append(history, turn)
    IN  IF Len(h) > HistoryCap THEN SubSeq(h, Len(h) - HistoryCap + 1, Len(h)) ELSE h

\* A store that keeps one history for all conversation ids.
MapSetShared(map, id, entry) == [k \in DOMAIN map |-> entry]

\* Map.prototype.set(id, entry) on chatHistory (offlineService.ts:230, :266):
\* the entry of id is replaced, the entries of the other keys stay.
MapSet(map, id, entry) == [map EXCEPT ![id] = entry]

\* chatHistory.set(chatId, []) without the test of chatHistory.has(chatId).
EnsureEntryFresh(entry) == [has |-> TRUE, turns |-> <<>>]

\* offlineService.ts:229-231: if (!chatHistory.has(chatId)) chatHistory.set(chatId, [])
EnsureEntry(entry) == IF entry.has THEN entry ELSE [has |-> TRUE, turns |-> <<>>]

\* apiService.ts:76-87 with askQuestionOnline (:210) or askQuestionOffline
\* and chatWithTopicOffline (:162, offlineService.ts:217) up to the first await.
AskQuestionCall(p, chatId) ==
    /\ FreeSlot(p)
    /\ asksLeft > 0
    /\ asksLeft' = asksLeft - 1
    /\ reqNo' = reqNo + 1
    /\ LET c == [IdleCall EXCEPT !.op = "askQuestion", !.chatId = chatId,
                                 !.question = reqNo + 1, !.bare = ~everProcessed]
       IN  calls' = [calls EXCEPT ![p] =
                        IF UseOnline THEN SendFetch(c) ELSE StartRetrieval(c)]
    /\ UNCHANGED <<helpers, isOnline, navigatorOnLine, vectorStore, chatHistory, appended,
                   everProcessed>>

\* askQuestion called by a client other than the ChatInterface.
AskQuestion(p, chatId) == AskQuestionCall(p, chatId) /\ UNCHANGED chatInterface

\* `await retriever.getRelevantDocuments(userMessage)` settles
\* (offlineService.ts:224).  Resolved: the entry of chatId is created if it
\* is missing, the prompt is built from the turns stored at this moment and
\* llm.invoke is awaited.  Rejected: the catch clause re-throws.
ChatRetrieved(p) ==
    /\ calls[p].pc = "retrieve"
    /\ calls[p].op = "askQuestion"
    /\ UNCHANGED <<chatInterface, helpers, isOnline, navigatorOnLine, vectorStore, counters>>
    /\ \/ LET id == calls[p].chatId
              entry == EnsureEntry(chatHistory[id])
          IN  /\ chatHistory' = MapSet(chatHistory, id, entry)
              /\ calls' = [calls EXCEPT ![p] =
                     Touched([@ EXCEPT !.pc = "generate",
                                       !.prompt = [context |-> RelevantDocs(calls[p].retriever),
                                                   history |-> entry.turns,
                                                   question |-> calls[p].question]])]
       \/ /\ calls' = [calls EXCEPT ![p] = Fail(@, OfflineError(@.op))]
          /\ UNCHANGED chatHistory

\* `await llm.invoke(fullPrompt)` settles (offlineService.ts:256).  Resolved:
\* the turn is pushed onto the array the Map holds for chatId (the array is
\* created once per id and never replaced, so `history` is that array), the
\* array is cut to its last 10 turns, and the answer is returned.  The answer
\* is identified by the question of the prompt it was generated from.
ChatGenerated(p) ==
    /\ calls[p].pc = "generate"
    /\ calls[p].op = "askQuestion"
    /\ UNCHANGED <<chatInterface, helpers, isOnline, navigatorOnLine, vectorStore, reqNo, asksLeft, everProcessed>>
    /\ \/ LET id == calls[p].chatId
              turn == [human |-> calls[p].question, ai |-> calls[p].prompt.question]
          IN  /\ chatHistory' = MapSet(chatHistory, id,
                                    [chatHistory[id] EXCEPT !.turns = PushTurn(@, turn)])
              /\ appended' = [appended EXCEPT ![id] = Append(@, turn)]
              /\ calls' = [calls EXCEPT ![p] =
                      Touched(Done(@, [NoResult EXCEPT !.answer = turn.ai]))]
       \/ /\ calls' = [calls EXCEPT ![p] = Fail(@, OfflineError(@.op))]
          /\ UNCHANGED <<chatHistory, appended>>

\* apiService.ts:92-103 with getSummaryOnline (:237) or getSummaryOffline
\* (offlineService.ts:176) up to the first await.
GetSummary(p, topic) ==
    /\ FreeSlot(p)
    /\ LET c == [IdleCall EXCEPT !.op = "getSummary", !.topic = topic]
       IN  calls' = [calls EXCEPT ![p] =
                        IF UseOnline THEN SendFetch(c) ELSE StartRetrieval(c)]
    /\ UNCHANGED <<chatInterface, helpers, isOnline, navigatorOnLine, vectorStore, chatHistory, counters>>

\* The graphs passed to getContextualSummary: graphData.nodes, an array of
\* GraphNode {id: number, label: string} (types/index.ts:5-11); the nodes
\* generateGraphDataFromText emits carry such ids.
Graphs ==
    {<<[id |-> JsNumber(1), label |-> "DEFINITIONS"],
       [id |-> JsNumber(2), label |-> "TERMINATION"]>>}

\* The values passed as clickedNodeId, a string by the signature
\* (apiService.ts:108): the id of the second node and the id of no node.
NodeIds == {JsString(2), JsString(3)}

\* apiService.ts:114-115: graphData.nodes.find(n => n.id === clickedNodeId),
\* the first node of the array with that id, then
\* clickedNode ? clickedNode.label : 'Unknown topic'.
TopicOfNode(clickedNodeId, graphData) ==
    IF \E i \in 1..Len(graphData) : StrictEquals(graphData[i].id, clickedNodeId)
    THEN LET first == CHOOSE i \in 1..Len(graphData) :
                        /\ StrictEquals(graphData[i].id, clickedNodeId)
                        /\ \A j \in 1..(i - 1) :
                                ~StrictEquals(graphData[j].id, clickedNodeId)
         IN  graphData[first].label
    ELSE "Unknown topic"

\* apiService.ts:108-122 with getContextualSummaryOnline (:257) or
\* getSummaryOffline(topic) up to the first await.
\* The body of the remote request is not modelled; the call record keeps
\* the clicked id where the code reads it, in the offline branch.
GetContextualSummary(p, clickedNodeId, graphData) ==
    /\ FreeSlot(p)
    /\ LET c == [IdleCall EXCEPT !.op = "getContextualSummary"]
       IN  calls' = [calls EXCEPT ![p] =
                        IF UseOnline
                        THEN SendFetch(c)
                        ELSE StartRetrieval(
                                [c EXCEPT !.clickedNodeId = clickedNodeId,
                                          !.topic = TopicOfNode(clickedNodeId, graphData)])]
    /\ UNCHANGED <<chatInterface, helpers, isOnline, navigatorOnLine, vectorStore, chatHistory, counters>>

\* `await retriever.getRelevantDocuments(topic)` settles in getSummaryOffline
\* (offlineService.ts:183); on success the chain is invoked and awaited.
SummaryRetrieved(p) ==
    /\ calls[p].pc = "retrieve"
    /\ calls[p].op \in {"getSummary", "getContextualSummary"}
    /\ \/ calls' = [calls EXCEPT ![p] =
                [@ EXCEPT !.pc = "generate",
                          !.prompt.context = RelevantDocs(calls[p].retriever)]]
       \/ calls' = [calls EXCEPT ![p] = Fail(@, OfflineError(@.op))]
    /\ UNCHANGED <<chatInterface, helpers, isOnline, navigatorOnLine, vectorStore, chatHistory, counters>>

\* The summary is refused while there is no index.
SummarizeLegalDocumentOfflineNeedsIndex(c) ==
    IF vectorStore.isNull
    THEN Fail([c EXCEPT !.route = "offline"], ErrNoDocument)
    ELSE [c EXCEPT !.route = "offline", !.pc = "extract"]

\* summarizeLegalDocumentOffline up to its first await
\* (offlineService.ts:281-283): no test of vectorStore, no retriever.
SummarizeLegalDocumentOffline(c) == [c EXCEPT !.route = "offline", !.pc = "extract"]

\* apiService.ts:127-138 with summarizeLegalDocumentOnline (:286) or
\* summarizeLegalDocumentOffline (offlineService.ts:281) up to the first await.
SummarizeLegalDocument(p, file) ==
    /\ FreeSlot(p)
    /\ LET c == [IdleCall EXCEPT !.op = "summarizeLegalDocument", !.source = file]
       IN  calls' = [calls EXCEPT ![p] =
                        IF UseOnline THEN SendFetch(c)
                                     ELSE SummarizeLegalDocumentOffline(c)]
    /\ UNCHANGED <<chatInterface, helpers, isOnline, navigatorOnLine, vectorStore, chatHistory, counters>>

\* `await chain.invoke(...)` settles in getSummaryOffline (offlineService.ts:198)
\* or summarizeLegalDocumentOffline (:295).
SummaryGenerated(p) ==
    /\ calls[p].pc = "generate"
    /\ calls[p].op # "askQuestion"
    /\ \/ calls' = [calls EXCEPT ![p] = Done(@, [NoResult EXCEPT !.summary = "llm summary"])]
       \/ calls' = [calls EXCEPT ![p] = Fail(@, OfflineError(@.op))]
    /\ UNCHANGED <<chatInterface, helpers, isOnline, navigatorOnLine, vectorStore, chatHistory, counters>>

\* ----------------------------------------------------------- fetchGraphData

\* apiService.ts:60-71: fetchGraphDataOnline (:203) throws at once, without a
\* request; fetchGraphDataOffline (:158) awaits the IPC call.
FetchGraphData(p) ==
    /\ FreeSlot(p)
    /\ LET c == [IdleCall EXCEPT !.op = "fetchGraphData"]
       IN  calls' = [calls EXCEPT ![p] =
                        IF UseOnlineGraph
                        THEN Fail([c EXCEPT !.route = "online"], ErrGraphIncluded)
                        ELSE [c EXCEPT !.route = "offline", !.pc = "ipc"]]
    /\ UNCHANGED <<chatInterface, helpers, isOnline, navigatorOnLine, vectorStore, chatHistory, counters>>

\* window.electronAPI.fetchGraphData(documentId) settles.
IpcResponds(p) ==
    /\ calls[p].pc = "ipc"
    /\ \/ calls' = [calls EXCEPT ![p] = Done(@, [NoResult EXCEPT !.graphData = "ipc graph"])]
       \/ calls' = [calls EXCEPT ![p] = Fail(@, ErrIpc)]
    /\ UNCHANGED <<chatInterface, helpers, isOnline, navigatorOnLine, vectorStore, chatHistory, counters>>

\* ------------------------------------------------ generateGraphDataFromText

\* A text is a sequence of tokens: a word token is a maximal run of word
\* characters ([A-Za-z0-9_]), a separator token a single character that is
\* not one.  Two word tokens side by side read as one longer word.
Words == {"DEFINITIONS", "termination", "BREACH", "SERVICE", "AGREEMENT", "s"}

Separators == {" ", "\n"}

TextTokens == Words \cup Separators

Texts == UNION {[1..n -> TextTokens] : n \in 0..MaxTokens}

\* offlineService.ts:31-50
legalSections ==
    <<"SERVICE AGREEMENT", "RECITALS", "DEFINITIONS", "SCOPE OF SERVICES",
      "COMPENSATION", "REPRESENTATIONS AND WARRANTIES", "TERMINATION",
      "INDEMNIFICATION", "FORCE MAJEURE", "GOVERNING LAW", "DISPUTE RESOLUTION",
      "CONFIDENTIALITY", "INTELLECTUAL PROPERTY", "LIABILITY", "SURVIVAL",
      "ENSURE PERFORMANCE", "BREACH", "REMEDIES">>

\* A label as tokens: its words with the single spaces between them.
Phrase(section) ==
    CASE section = "SERVICE AGREEMENT" -> <<"SERVICE", " ", "AGREEMENT">>
      [] section = "SCOPE OF SERVICES" -> <<"SCOPE", " ", "OF", " ", "SERVICES">>
      [] section = "REPRESENTATIONS AND WARRANTIES" ->
            <<"REPRESENTATIONS", " ", "AND", " ", "WARRANTIES">>
      [] section = "FORCE MAJEURE" -> <<"FORCE", " ", "MAJEURE">>
      [] section = "GOVERNING LAW" -> <<"GOVERNING", " ", "LAW">>
      [] section = "DISPUTE RESOLUTION" -> <<"DISPUTE", " ", "RESOLUTION">>
      [] section = "INTELLECTUAL PROPERTY" -> <<"INTELLECTUAL", " ", "PROPERTY">>
      [] section = "ENSURE PERFORMANCE" -> <<"ENSURE", " ", "PERFORMANCE">>
      [] OTHER -> <<section>>

\* The 'i' flag of the regular expression: letters are compared without
\* regard to case.
Upper(token) ==
    CASE token = "termination" -> "TERMINATION"
      [] token = "s" -> "S"
      [] OTHER -> token

\* new RegExp(`\\b${section}\\b`, 'gi') matches at position i of the text:
\* the tokens agree up to case, and \b holds on both sides, that is, no word
\* character precedes the first letter or follows the last.
MatchesAt(phrase, t, i) ==
    /\ i + Len(phrase) - 1 <= Len(t)
    /\ \A k \in 1..Len(phrase) : Upper(t[i + k - 1]) = phrase[k]
    /\ i > 1 => t[i - 1] \notin Words
    /\ i + Len(phrase) <= Len(t) => t[i + Len(phrase)] \notin Words

\* The regular expression lacks the two \b.
TestAnywhere(section, t) ==
    \E i \in 1..Len(t) :
        /\ i + Len(Phrase(section)) - 1 <= Len(t)
        /\ \A k \in 1..Len(Phrase(section)) : Upper(t[i + k - 1]) = Phrase(section)[k]

\* sectionRegex.test(text), on a regular expression that was just created
\* (lastIndex 0).
Test(section, t) == \E i \in 1..Len(t) : MatchesAt(Phrase(section), t, i)

\* An edge is pushed for every node.
EdgeNeededAlways(nodeId) == TRUE

\* if (nodeId > 1)
EdgeNeeded(nodeId) == nodeId > 1

\* The loop over legalSections from its k-th label on.  Of a node the model
\* keeps id and label; color and title are computed from the label alone.
RECURSIVE SectionLoop(_, _, _, _, _)
SectionLoop(t, k, nodes, edges, nodeId) ==
    IF k > Len(legalSections)
    THEN [nodes |-> nodes, edges |-> edges]
    ELSE IF Test(legalSections[k], t)
         THEN SectionLoop(t, k + 1,
                Append(nodes, [id |-> nodeId, label |-> legalSections[k]]),
                IF EdgeNeeded(nodeId)
                THEN Append(edges, [from |-> nodeId - 1, to |-> nodeId])
                ELSE edges,
                nodeId + 1)
         ELSE SectionLoop(t, k + 1, nodes, edges, nodeId)

\* The default node.
FallbackNode == [id |-> 1, label |-> "Legal Document"]

\* offlineService.ts:28-118.  Nothing in the try block throws on a string, so
\* the catch clause is left out.
GenerateGraphDataFromText(t) ==
    LET found == SectionLoop(t, 1, <<>>, <<>>, 1)
    IN  [nodes |-> IF Len(found.nodes) = 0 THEN <<FallbackNode>> ELSE found.nodes,
         edges |-> found.edges]

\* One call of generateGraphDataFromText returns.
GenerateGraphData ==
    /\ ~graph.done
    /\ LET returned == GenerateGraphDataFromText(inputText)
       IN  graph' = [done |-> TRUE, nodes |-> returned.nodes, edges |-> returned.edges]
    /\ UNCHANGED <<chatInterface, inputText, pdf, fullText, isOnline, navigatorOnLine, vectorStore,
                   chatHistory, calls, counters>>

\* ------------------------------------------------------- extractTextFromPdf

\* A string is a sequence of characters; item.str of a text item is one of
\* these.
ItemStrs == {<<>>, <<"a">>, <<"b">>}

\* textContent.items.map(item => item.str) of a page.
PageItems == UNION {[1..n -> ItemStrs] : n \in 0..MaxItems}

\* A document: pdf.numPages pages, at least one.
Pdfs == UNION {[1..n -> PageItems] : n \in 1..MaxPages}

\* Array.prototype.join: the strings with sep between neighbours.
RECURSIVE Join(_, _)
Join(strs, sep) ==
    IF Len(strs) = 0 THEN <<>>
    ELSE IF Len(strs) = 1 THEN strs[1]
    ELSE strs[1] \o sep \o Join(Tail(strs), sep)

\* The items of a page joined by spaces, with no newline after them.
PageTextBare(items) == Join(items, <<" ">>)

\* textContent.items.map(item => item.str).join(" ") + "\n"
PageText(items) == Join(items, <<" ">>) \o <<"\n">>

\* The loop over the pages from page i on (offlineService.ts:129-133).
RECURSIVE PageLoop(_, _, _)
PageLoop(pages, i, acc) ==
    IF i > Len(pages) THEN acc
    ELSE PageLoop(pages, i + 1, acc \o PageText(pages[i]))

\* offlineService.ts:125-135
ExtractTextFromPdf(pages) == PageLoop(pages, 1, <<>>)

\* One call of extractTextFromPdf returns.
ExtractText ==
    /\ ~fullText.done
    /\ fullText' = [done |-> TRUE, str |-> ExtractTextFromPdf(pdf)]
    /\ UNCHANGED <<chatInterface, inputText, graph, pdf, isOnline, navigatorOnLine, vectorStore,
                   chatHistory, calls, counters>>

\* ------------------------------------------------------------ ChatInterface

\* The documentId prop of the ChatInterface, which it passes to askQuestion
\* as the conversation id (ChatInterface.tsx:59).
documentId == "c1"

\* What the textarea can hold: nothing, white space, a question.
InputValues == {"", " ", "q"}

\* String.prototype.trim()
Trim(v) == IF v = " " THEN "" ELSE v

\* No askQuestion promise has settled without its continuation having run:
\* the continuation of `await apiService.askQuestion(...)` is a microtask,
\* and no event handler and no render runs before the microtasks are done.
MicrotasksDrained ==
    \A p \in Calls : ~(calls[p].op = "askQuestion" /\ calls[p].pc \in {"done", "failed"})

\* ChatInterface.tsx:174, onChange of the textarea, which is disabled while
\* the rendered isThinking is true (:183).
SetInputValue(v) ==
    /\ MicrotasksDrained
    /\ ~chatInterface.rendered.isThinking
    /\ chatInterface.inputValue # v
    /\ chatInterface' = [chatInterface EXCEPT !.inputValue = v]
    /\ UNCHANGED <<helpers, isOnline, navigatorOnLine, vectorStore, chatHistory, calls,
                   counters>>

\* React renders the component with the current state: the closures of the
\* new render, and the sendMessage handle (useImperativeHandle with the
\* dependency isThinking, :109-111), capture that state.
Render ==
    /\ MicrotasksDrained
    /\ chatInterface.rendered #
            [isThinking |-> chatInterface.isThinking, inputValue |-> chatInterface.inputValue]
    /\ chatInterface' =
            [chatInterface EXCEPT !.rendered = [isThinking |-> chatInterface.isThinking,
                                                inputValue |-> chatInterface.inputValue]]
    /\ UNCHANGED <<helpers, isOnline, navigatorOnLine, vectorStore, chatHistory, calls,
                   counters>>

\* handleMessageSubmission (ChatInterface.tsx:45-59) up to its await.  The
\* guard reads isThinking from the closure of the last render.  A message
\* that passes is appended as a user message, isThinking is set, and
\* apiService.askQuestion is called; viaForm says that handleSubmit is the
\* caller, which clears the input when handleMessageSubmission has finished
\* (:85-86).  At most as many requests are in flight as there are slots.
HandleMessageSubmission(messageContent, viaForm) ==
    /\ MicrotasksDrained
    /\ asksLeft > 0
    /\ IF Trim(messageContent) = "" \/ chatInterface.rendered.isThinking
       THEN /\ chatInterface' =
                    [chatInterface EXCEPT !.dropped = @ + 1,
                                          !.inputValue = IF viaForm THEN "" ELSE @]
            /\ asksLeft' = asksLeft - 1
            /\ UNCHANGED <<helpers, isOnline, navigatorOnLine, vectorStore, chatHistory,
                           calls, reqNo, appended, everProcessed>>
       ELSE \E p \in Calls :
                /\ AskQuestionCall(p, documentId)
                /\ chatInterface' =
                        [chatInterface EXCEPT
                            !.messages = Append(@, ChatMessage("user", QuestionText(reqNo + 1),
                                                               reqNo + 1)),
                            !.isThinking = TRUE,
                            !.fromForm = IF viaForm THEN @ \cup {p} ELSE @]

\* handleSubmit (:83-87), by the submit button or by Enter in the textarea
\* (:89-94), both disabled while the rendered isThinking is true.
HandleSubmit ==
    /\ ~chatInterface.rendered.isThinking
    /\ HandleMessageSubmission(chatInterface.rendered.inputValue, TRUE)

\* GraphPage.handleNodeSelect (GraphPage.tsx:135-141): a click on a graph
\* node calls chatRef.current.sendMessage with a message that is not empty.
HandleNodeSelect ==
    /\ chatInterface.messages # <<>>      \* if (chatRef.current): the component has mounted
    /\ HandleMessageSubmission("q", FALSE)

\* The code after the await without the finally clause: setIsThinking(false)
\* as the last statement of the try block.
AfterAwaitNoFinally(ui, p, c) ==
    [ui EXCEPT !.messages = Append(@, ChatMessage("ai",
                                                  IF c.pc = "done"
                                                  THEN AnswerText(c.result.answer)
                                                  ELSE Apology,
                                                  c.question)),
               !.isThinking = IF c.pc = "done" THEN FALSE ELSE @,
               !.inputValue = IF p \in ui.fromForm THEN "" ELSE @,
               !.fromForm = @ \ {p}]

\* ChatInterface.tsx:59-80 after the await: the answer, or in the catch
\* clause the fixed apology, is appended as an AI message, and the finally
\* clause sets isThinking to false; a waiting handleSubmit clears the input.
AfterAwait(ui, p, c) ==
    [ui EXCEPT !.messages = Append(@, ChatMessage("ai",
                                                  IF c.pc = "done"
                                                  THEN AnswerText(c.result.answer)
                                                  ELSE Apology,
                                                  c.question)),
               !.isThinking = FALSE,
               !.inputValue = IF p \in ui.fromForm THEN "" ELSE @,
               !.fromForm = @ \ {p}]

\* The askQuestion promise of call p has settled and handleMessageSubmission
\* resumes.
SubmissionResumes(p) ==
    /\ calls[p].op = "askQuestion"
    /\ calls[p].pc \in {"done", "failed"}
    /\ chatInterface' = AfterAwait(chatInterface, p, calls[p])
    /\ calls' = [calls EXCEPT ![p] = IdleCall]
    /\ UNCHANGED <<helpers, isOnline, navigatorOnLine, vectorStore, chatHistory, counters>>

\* ------------------------------------------------------------ specification

Next ==
    \/ \E online \in BOOLEAN : SetOnlineMode(online)
    \/ ConnectivityChange
    \/ \E p \in Calls, source \in Files \cup Urls : ProcessDocument(p, source)
    \/ \E p \in Calls : FetchGraphData(p)
    \/ \E p \in Calls, chatId \in ChatIds : AskQuestion(p, chatId)
    \/ \E p \in Calls, topic \in Topics : GetSummary(p, topic)
    \/ \E p \in Calls, n \in NodeIds, g \in Graphs : GetContextualSummary(p, n, g)
    \/ \E p \in Calls, file \in Files : SummarizeLegalDocument(p, file)
    \/ \E p \in Calls : FetchResponds(p)
    \/ \E p \in Calls : Extracted(p)
    \/ \E p \in Calls : Split(p)
    \/ \E p \in Calls : Embedded(p)
    \/ \E p \in Calls : ChatRetrieved(p)
    \/ \E p \in Calls : ChatGenerated(p)
    \/ \E p \in Calls : SummaryRetrieved(p)
    \/ \E p \in Calls : SummaryGenerated(p)
    \/ \E p \in Calls : IpcResponds(p)
    \/ \E p \in Calls : Return(p)

Spec == Init /\ [][Next]_vars

\* The client stays in offline mode and uses the operations that share the
\* Vector Index and the Conversation Store, two calls at a time.
InitOffline == InitWith(MaxAskOffline) /\ NoHelperCall

NextOffline ==
    \/ \E p \in Calls, file \in Files : ProcessDocument(p, file)
    \/ \E p \in Calls, chatId \in ChatIds : AskQuestion(p, chatId)
    \/ \E p \in Calls, topic \in Topics : GetSummary(p, topic)
    \/ \E p \in Calls : Extracted(p)
    \/ \E p \in Calls : Split(p)
    \/ \E p \in Calls : Embedded(p)
    \/ \E p \in Calls : ChatRetrieved(p)
    \/ \E p \in Calls : ChatGenerated(p)
    \/ \E p \in Calls : SummaryRetrieved(p)
    \/ \E p \in Calls : SummaryGenerated(p)
    \/ \E p \in Calls : Return(p)

SpecOffline == InitOffline /\ [][NextOffline]_vars

\* The client stays in offline mode, processes one document and then chats on
\* one conversation, one request after the other, for more than HistoryCap
\* turns.
InitChat == InitWith(MaxAskChat) /\ NoHelperCall

NextChat ==
    \/ ProcessDocument(1, "docA")
    \/ Extracted(1)
    \/ Split(1)
    \/ Embedded(1)
    \/ AskQuestion(1, "c1")
    \/ ChatRetrieved(1)
    \/ ChatGenerated(1)
    \/ Return(1)

SpecChat == InitChat /\ [][NextChat]_vars

\* The client stays in offline mode, processes docA, chats on one
\* conversation, replaces the document by docB once a turn is stored, and
\* chats on; calls overlap two at a time.  docA is processed only while
\* there is no index, so the first stored turn was stored under docA's index.
InitReplace == InitWith(MaxAskReplace) /\ NoHelperCall

NextReplace ==
    \/ \E p \in Calls : vectorStore.isNull /\ ProcessDocument(p, "docA")
    \/ \E p \in Calls : chatHistory["c1"].turns # <<>> /\ ProcessDocument(p, "docB")
    \/ \E p \in Calls : AskQuestion(p, "c1")
    \/ \E p \in Calls : Extracted(p)
    \/ \E p \in Calls : Split(p)
    \/ \E p \in Calls : Embedded(p)
    \/ \E p \in Calls : ChatRetrieved(p)
    \/ \E p \in Calls : ChatGenerated(p)
    \/ \E p \in Calls : Return(p)

SpecReplace == InitReplace /\ [][NextReplace]_vars

\* The client stays in offline mode.  On the HomePage a document is processed
\* or not (HomePage.handleFileSelect navigates to the GraphPage when
\* processDocument has returned); on the GraphPage, which holds the
\* ChatInterface, the user types, submits the form and clicks graph nodes,
\* MaxSubmit times in all, at any moment.
InitUI == InitWith(MaxSubmit) /\ NoHelperCall

\* No processDocument call is under way and the GraphPage can be open.
OnGraphPage == \A p \in Calls : calls[p].op # "processDocument"

NextUI ==
    \/ /\ vectorStore.isNull
       /\ chatInterface = MountedChatInterface
       /\ asksLeft = MaxSubmit
       /\ ProcessDocument(1, "docA")
    \/ Extracted(1)
    \/ Split(1)
    \/ Embedded(1)
    \/ calls[1].op = "processDocument" /\ Return(1)
    \/ \E v \in InputValues : OnGraphPage /\ SetInputValue(v)
    \/ OnGraphPage /\ HandleSubmit
    \/ OnGraphPage /\ HandleNodeSelect
    \/ Render
    \/ \E p \in Calls : ChatRetrieved(p)
    \/ \E p \in Calls : ChatGenerated(p)
    \/ \E p \in Calls : SubmissionResumes(p)

SpecUI == InitUI /\ [][NextUI]_vars

\* The same with the scheduling the runtime guarantees: the continuation of
\* a settled promise runs, and React renders a component whose state has
\* changed.
SpecUILive ==
    /\ SpecUI
    /\ WF_vars(\E p \in Calls : SubmissionResumes(p))
    /\ WF_vars(Render)

\* generateGraphDataFromText on every text of up to MaxTokens tokens.
InitGraph ==
    /\ InitWith(0)
    /\ navigatorOnLine
    /\ inputText \in Texts
    /\ graph = NoGraph
    /\ pdf = <<>>
    /\ fullText = NoText

NextGraph == GenerateGraphData

SpecGraph == InitGraph /\ [][NextGraph]_vars

\* extractTextFromPdf on every document of up to MaxPages pages of up to
\* MaxItems items.
InitExtract ==
    /\ InitWith(0)
    /\ navigatorOnLine
    /\ inputText = <<>>
    /\ graph = NoGraph
    /\ pdf \in Pdfs
    /\ fullText = NoText

NextExtract == ExtractText

SpecExtract == InitExtract /\ [][NextExtract]_vars

\* ------------------------------------------------------------------ claims

IsUrlOffline(c) == c.op = "processDocument" /\ IsUrl(c.source) /\ c.route = "offline"

LastN(seq, n) == IF Len(seq) <= n THEN seq ELSE SubSeq(seq, Len(seq) - n + 1, Len(seq))

\* C1: no step of any Mode Router operation sends an HTTP request while the
\* configured online flag is false, whatever navigator.onLine reports.
C1_NoRemoteCallWhileFlagOff ==
    [][\A p \in Calls : calls'[p].fetches > calls[p].fetches => isOnline]_vars

\* The flag is off, the platform reports connectivity, and a call that was
\* routed offline is in flight or settled without having sent a request.
C1_Witness ==
    \E p \in Calls :
        /\ ~isOnline /\ navigatorOnLine
        /\ calls[p].pc # "idle" /\ calls[p].route = "offline" /\ calls[p].fetches = 0

\* C2: with the flag set by setOnlineMode(true) and navigator.onLine false,
\* every operation that is called takes the offline path.
C2_OfflineWhenDisconnected ==
    [][\A p \in Calls :
          (calls[p].pc = "idle" /\ calls'[p].pc # "idle" /\ isOnline /\ ~navigatorOnLine)
              => calls'[p].route = "offline"]_vars

\* C3: an askQuestion call issued when no processDocument has ever succeeded
\* settles only as a failure with the no-document error, never reaches the
\* generation step and changes no shared state.
C3_AskBeforeAnyDocumentFails ==
    \A p \in Calls :
        (calls[p].op = "askQuestion" /\ calls[p].bare) =>
            /\ calls[p].pc \in {"done", "failed"} =>
                    (calls[p].pc = "failed" /\ calls[p].err = ErrNoDocument)
            /\ calls[p].pc # "generate"
            /\ ~calls[p].wrote

\* C4: a processDocument call that has failed has changed neither the Vector
\* Index nor the Conversation Store in any of its steps.
C4_FailedProcessWritesNothing ==
    \A p \in Calls :
        (calls[p].op = "processDocument" /\ calls[p].pc = "failed") => ~calls[p].wrote

\* An offline processDocument of a file has failed in the pipeline while the
\* index of the other file, built by an earlier call, is in place.
C4_Witness ==
    \E p \in Calls, f \in Files :
        /\ calls[p].op = "processDocument" /\ calls[p].pc = "failed"
        /\ calls[p].err = ErrProcessPdf /\ calls[p].source # f
        /\ vectorStore = FromDocuments(ChunksOf(f))

\* C5: an offline askQuestion call that has failed has changed the
\* Conversation Store in none of its steps (no id added, no turn added).
C5_FailedAskWritesNothing ==
    \A p \in Calls :
        (calls[p].op = "askQuestion" /\ calls[p].route = "offline" /\ calls[p].pc = "failed")
            => ~calls[p].wrote

\* C6: the stored history of every conversation id holds at most HistoryCap
\* turns, and they are the most recent turns pushed for that id, in the
\* order they were pushed.
C6_HistoryIsLastTen ==
    \A c \in ChatIds :
        /\ Len(chatHistory[c].turns) <= HistoryCap
        /\ chatHistory[c].turns = LastN(appended[c], HistoryCap)

\* More than HistoryCap turns have been pushed for one id.
C6_Witness == \E c \in ChatIds : Len(appended[c]) > HistoryCap

\* C7: the turns of one conversation id are stored in the order their
\* requests were issued, and the prompt of a request holds the turn of every
\* request issued before it on that id.
C7_TurnsInIssueOrder ==
    /\ \A c \in ChatIds : \A i, j \in 1..Len(chatHistory[c].turns) :
            i < j => chatHistory[c].turns[i].human < chatHistory[c].turns[j].human
    /\ \A p, q \in Calls :
            (/\ calls[p].op = "askQuestion" /\ calls[q].op = "askQuestion"
             /\ calls[p].chatId = calls[q].chatId
             /\ calls[q].question < calls[p].question
             /\ calls[p].pc = "generate" /\ calls[q].pc = "done"
             /\ calls[q].route = "offline")
                => \E i \in 1..Len(calls[p].prompt.history) :
                        calls[p].prompt.history[i].human = calls[q].question

\* C8: a query in flight holds the complete index of exactly one file, and
\* the chunks it retrieves are chunks of that file, also while another
\* document is being processed.
C8_QuerySeesOneDocument ==
    \A p \in Calls :
        (calls[p].op \in {"askQuestion", "getSummary", "getContextualSummary"}
         /\ calls[p].pc \in {"retrieve", "generate"}) =>
            \E f \in Files :
                /\ calls[p].retriever = FromDocuments(ChunksOf(f))
                /\ calls[p].pc = "generate" => calls[p].prompt.context = ChunksOf(f)

\* A query has retrieved the chunks of one file while a processDocument call
\* for another file is embedding its chunks.
C8_Witness ==
    \E p, q \in Calls, f \in Files :
        /\ calls[q].op = "processDocument" /\ calls[q].pc = "embed" /\ calls[q].source # f
        /\ calls[p].op \in {"askQuestion", "getSummary"} /\ calls[p].pc = "generate"
        /\ calls[p].prompt.context = ChunksOf(f)

\* C9: processDocument called with a URL and routed offline is rejected with
\* the unsupported-source error, has sent no request and has changed neither
\* the Vector Index nor the Conversation Store.
C9_UrlOfflineRejected ==
    \A p \in Calls :
        IsUrlOffline(calls[p]) =>
            /\ calls[p].pc = "failed"
            /\ calls[p].err = ErrYouTubeOffline
            /\ calls[p].fetches = 0
            /\ ~calls[p].wrote

\* processDocument was called with a URL and routed offline.
C9_Witness == \E p \in Calls : IsUrlOffline(calls[p]) /\ calls[p].pc = "failed"

\* C10: every failed Mode Router call carries the router's own message for
\* its operation.
C10_RouterMessageOnFailure ==
    \A p \in Calls : calls[p].pc = "failed" => calls[p].err = Err(RouterMessage(calls[p].op))

\* ------------------------------------------------------- claims C11 to C15

\* The online calls that return before any request: fetchGraphDataOnline and
\* processDocumentOnline with a URL throw at once.
ThrowsBeforeFetch(c) ==
    \/ c.op = "fetchGraphData"
    \/ c.op = "processDocument" /\ IsUrl(c.source)

\* C11, as stated: every online call that has settled has sent exactly one
\* HTTP request.
C11_ExactlyOneRequest ==
    \A p \in Calls :
        (calls[p].route = "online" /\ calls[p].pc \in {"done", "failed"})
            => calls[p].fetches = 1

\* C11, amended: an online call sends at most one HTTP request, and exactly
\* one unless it is fetchGraphData or processDocument with a URL, which fail
\* before any request; a call whose response is not 2xx fails with an error
\* that carries the status and the body text of that response; a call that
\* resolved got a 2xx response to its one request.
C11_AtMostOneRequest ==
    \A p \in Calls :
        calls[p].route = "online" =>
            /\ calls[p].fetches <= 1
            /\ calls[p].pc = "fetch" => calls[p].fetches = 1
            /\ calls[p].pc \in {"done", "failed"} =>
                    (calls[p].fetches = 0 <=> ThrowsBeforeFetch(calls[p]))
            /\ calls[p].pc = "done" => calls[p].response.ok
            /\ (calls[p].pc = "failed" /\ calls[p].fetches = 1) =>
                    /\ ~calls[p].response.ok
                    /\ calls[p].response.status \in Statuses
                    /\ calls[p].err.status = calls[p].response.status
                    /\ calls[p].err.body = calls[p].response.text

\* An online call has failed on a response that is not 2xx, after one request.
C11_Witness ==
    \E p \in Calls :
        /\ calls[p].route = "online"
        /\ calls[p].pc = "failed"
        /\ calls[p].fetches = 1
        /\ calls[p].response.status = 500
        /\ calls[p].err.body = "Internal Server Error"

\* C12, as stated: online processDocument returns the backend's index_name,
\* whatever it is, as documentId, with status "success" and the backend's
\* graph_data.
C12_DocumentIdIsIndexName ==
    \A p \in Calls :
        (calls[p].op = "processDocument" /\ calls[p].route = "online"
            /\ calls[p].pc = "done")
        => /\ calls[p].result.documentId = calls[p].response.index_name
           /\ calls[p].result.status = "success"
           /\ calls[p].result.graphData = calls[p].response.graph_data

\* C12, amended: online processDocument returns a non-empty index_name of
\* the backend as documentId and "nerv" for an empty one, with status
\* "success" and the backend's graph_data.
C12_DocumentIdOrNerv ==
    \A p \in Calls :
        (calls[p].op = "processDocument" /\ calls[p].route = "online"
            /\ calls[p].pc = "done")
        => /\ calls[p].response.index_name # ""
                => calls[p].result.documentId = calls[p].response.index_name
           /\ calls[p].response.index_name = ""
                => calls[p].result.documentId = "nerv"
           /\ calls[p].result.status = "success"
           /\ calls[p].result.graphData = calls[p].response.graph_data

\* Online processDocument has returned the index name the backend chose.
C12_Witness ==
    \E p \in Calls :
        /\ calls[p].op = "processDocument"
        /\ calls[p].route = "online"
        /\ calls[p].pc = "done"
        /\ calls[p].response.index_name = "idx7"
        /\ calls[p].result.documentId = "idx7"

\* What setOnlineMode must leave alone.
AllButFlag == <<chatInterface, helpers, navigatorOnLine, vectorStore, chatHistory, calls, counters>>

\* C13: a step of setOnlineMode(b) leaves the flag at b and changes neither
\* the Vector Index, the Conversation Store nor any call in flight, so that a
\* second setOnlineMode(b) changes nothing at all; no step that changes the
\* flag changes anything else.
C13_SetOnlineModeFrame ==
    [][/\ \A b \in BOOLEAN :
            SetOnlineMode(b) =>
                /\ isOnline' = b
                /\ UNCHANGED AllButFlag
                /\ isOnline = b => UNCHANGED vars
       /\ isOnline' # isOnline => UNCHANGED AllButFlag]_vars

\* The flag has been set while an offline call is in flight and an index and
\* a conversation exist.
C13_Witness ==
    /\ isOnline
    /\ ~vectorStore.isNull
    /\ \E id \in ChatIds : chatHistory[id].has
    /\ \E p \in Calls :
            /\ calls[p].route = "offline"
            /\ calls[p].pc \in {"extract", "split", "embed", "retrieve", "generate"}

\* Call p resumes from the await of fromDocuments with a built store.
BuildSucceeds(p) == calls[p].pc = "embed" /\ calls'[p].pc = "done"

\* Call p resumes from the await of fromDocuments with a rejection.
BuildFails(p) == calls[p].pc = "embed" /\ calls'[p].pc = "failed"

\* C14: the step in which a call's build succeeds installs the index of that
\* call's file, whatever index another call installed before; no other step
\* changes the Vector Index, so the index that remains is that of the build
\* that succeeded last; the step in which a build fails leaves the index as
\* it is.
C14_LastSuccessfulBuildWins ==
    [][/\ \A p \in Calls :
            BuildSucceeds(p) => vectorStore' = FromDocuments(ChunksOf(calls[p].source))
       /\ vectorStore' # vectorStore => \E p \in Calls : BuildSucceeds(p)
       /\ \A p \in Calls : BuildFails(p) => vectorStore' = vectorStore]_vars

\* Two offline processDocument calls for different files have overlapped:
\* the second started while the first was in flight, both builds have
\* succeeded, and the index is that of the first, whose build succeeded last.
C14_Witness ==
    \E p, q \in Calls :
        /\ calls[p].op = "processDocument" /\ calls[p].pc = "done" /\ calls[p].wrote
        /\ calls[q].op = "processDocument" /\ calls[q].pc = "done" /\ calls[q].wrote
        /\ calls[q].overlap
        /\ calls[p].source # calls[q].source
        /\ vectorStore = FromDocuments(ChunksOf(calls[p].source))

\* Call p, a query, starts on the offline path with an index present.
QueryStarts(p) == calls[p].pc = "idle" /\ calls'[p].pc = "retrieve"

OccursAsWholeWord(section, t) ==
    \E i, j \in 1..Len(t) :
        /\ j - i + 1 = Len(Phrase(section))
        /\ [k \in 1..(j - i + 1) |-> Upper(t[i + k - 1])] = Phrase(section)
        /\ i = 1 \/ t[i - 1] \in Separators
        /\ j = Len(t) \/ t[j + 1] \in Separators

\* The labels of the fixed list that occur in the text, in the order of the list.
MatchedLabels(t) ==
    LET Occurs(section) == OccursAsWholeWord(section, t)
    IN  SelectSeq(legalSections, Occurs)

\* C16: when n >= 1 labels of the fixed list occur in the text, the graph has
\* n nodes, node i carrying id i and the i-th matched label in the order of
\* the fixed list, and n-1 edges, edge i going from node i to node i+1.
C16_NodesInListOrder ==
    graph.done =>
        \A matched \in {MatchedLabels(inputText)} :
            LET n == Len(matched)
            IN  n >= 1 =>
                    /\ Len(graph.nodes) = n
                    /\ \A i \in 1..n : graph.nodes[i] = [id |-> i, label |-> matched[i]]
                    /\ Len(graph.edges) = n - 1
                    /\ \A i \in 1..(n - 1) : graph.edges[i] = [from |-> i, to |-> i + 1]

\* A text that holds "termination" before "DEFINITIONS" and no other label
\* has yielded the node DEFINITIONS, then the node TERMINATION, and one edge.
C16_Witness ==
    /\ graph.done
    /\ inputText = <<"termination", " ", "DEFINITIONS">>
    /\ graph.nodes = <<[id |-> 1, label |-> "DEFINITIONS"],
                       [id |-> 2, label |-> "TERMINATION"]>>
    /\ graph.edges = <<[from |-> 1, to |-> 2]>>

\* C17: when no label of the fixed list occurs in the text as a whole word in
\* any case, the graph is the fallback node alone, without edges; when some
\* label occurs, no node of the graph is the fallback node.
C17_FallbackIffNoLabel ==
    graph.done =>
        IF MatchedLabels(inputText) = <<>>
        THEN graph.nodes = <<FallbackNode>> /\ graph.edges = <<>>
        ELSE \A i \in 1..Len(graph.nodes) : graph.nodes[i].label # FallbackNode.label

\* The text "terminations", in which TERMINATION is only a part of a word,
\* has yielded the fallback node.
C17_Witness ==
    /\ graph.done
    /\ inputText = <<"termination", "s">>
    /\ graph.nodes = <<FallbackNode>>
    /\ graph.edges = <<>>

\* The strings of a sequence, one after the other.
RECURSIVE Concat(_)
Concat(strs) == IF strs = <<>> THEN <<>> ELSE Head(strs) \o Concat(Tail(strs))

\* The strings of a sequence with sep between each two neighbours and
\* nothing before the first or after the last.
Interleaved(strs, sep) ==
    Concat([k \in 1..(2 * Len(strs) - 1) |->
                IF k % 2 = 1 THEN strs[(k + 1) \div 2] ELSE sep])

\* The text of each page: its items with single spaces between them.
PageTexts(pages) == [i \in 1..Len(pages) |-> Interleaved(pages[i], <<" ">>)]

\* C20, as stated: the text returned for a document is its pages' texts with
\* a newline between consecutive pages, each page's text being its items
\* joined by single spaces, and nothing before the first page or after the
\* last.
C20_PagesJoinedByNewline ==
    fullText.done => fullText.str = Interleaved(PageTexts(pdf), <<"\n">>)

\* C20, amended: the text returned for a document is its pages' texts in
\* order, each page's text being its items joined by single spaces, with a
\* newline after every page, the last included, and nothing before the
\* first.
C20_NewlineAfterEveryPage ==
    fullText.done =>
        fullText.str =
            Concat([i \in 1..Len(pdf) |-> PageTexts(pdf)[i] \o <<"\n">>])

\* A document of two pages, the first with two items, has been extracted.
C20_Witness ==
    /\ fullText.done
    /\ pdf = << << <<"a">>, <<"b">> >>, << <<"b">> >> >>
    /\ fullText.str = <<"a", " ", "b", "\n", "b", "\n">>

\* ------------------------------------------------------- claims C21 to C30

\* Slot p holds an offline summarizeLegalDocument call.
IsSummarizeOffline(c) == c.op = "summarizeLegalDocument" /\ c.route = "offline"

\* C21: every step of an offline summarizeLegalDocument call, its start, its
\* resumptions and its end, whether it resolves or rejects, leaves the Vector
\* Index and the Conversation Store as they are; the call takes no retriever,
\* is never refused for want of a document, and the context of its generation
\* prompt is the whole text extracted from its file.
C21_SummarizeNeedsNoIndex ==
    [][\A p \in Calls :
        IsSummarizeOffline(calls'[p]) =>
            /\ calls'[p] # calls[p] => UNCHANGED <<vectorStore, chatHistory>>
            /\ calls'[p].retriever = NullStore
            /\ calls'[p].err # ErrNoDocument
            /\ calls'[p].pc = "generate"
                => calls'[p].prompt.context = FullTextOf(calls'[p].source)
            /\ calls'[p].pc = "done" => calls'[p].result.summary = "llm summary"]_vars

\* An offline summarizeLegalDocument call has succeeded although no
\* processDocument call has ever succeeded and there is no index.
C21_Witness ==
    \E p \in Calls :
        /\ IsSummarizeOffline(calls[p])
        /\ calls[p].pc = "done"
        /\ vectorStore.isNull
        /\ ~everProcessed

\* No processDocument call has succeeded.
NoDocumentYet == ~everProcessed

\* C22: while no processDocument call has succeeded, an offline getSummary or
\* getContextualSummary call is never anywhere but at its end, failed with
\* the no-document error: it took no retriever, built no prompt, so that
\* neither the embedding nor the generation provider was called for it, and
\* the Vector Index is still absent and the Conversation Store still empty.
C22_SummaryBeforeAnyDocumentFails ==
    NoDocumentYet =>
        \A p \in Calls :
            (calls[p].op \in {"getSummary", "getContextualSummary"}
                /\ calls[p].route = "offline")
            => /\ calls[p].pc = "failed"
               /\ calls[p].err = ErrNoDocument
               /\ calls[p].retriever = NullStore
               /\ calls[p].prompt = NoPrompt
               /\ ~calls[p].wrote
               /\ vectorStore = NullStore
               /\ \A id \in ChatIds : chatHistory[id] = NoEntry

\* Both an offline getSummary and an offline getContextualSummary call have
\* been refused for want of a document.
C22_Witness ==
    /\ NoDocumentYet
    /\ \E p, q \in Calls :
        /\ calls[p].op = "getSummary" /\ calls[p].route = "offline"
        /\ calls[p].err = ErrNoDocument
        /\ calls[q].op = "getContextualSummary" /\ calls[q].route = "offline"
        /\ calls[q].err = ErrNoDocument

\* Call p starts in this step.
CallStarts(p) == calls[p].pc = "idle" /\ calls'[p].pc # "idle"

\* C23: a processDocument or askQuestion call that starts while the flag and
\* the connectivity are both true takes the online route; a call on the
\* online route is only ever waiting for its response or settled, holds no
\* retriever and no prompt, and none of its steps changes the Vector Index or
\* the Conversation Store.
C23_OnlineServedRemotely ==
    [][\A p \in Calls :
        /\ (CallStarts(p) /\ isOnline /\ navigatorOnLine
                /\ calls'[p].op \in {"processDocument", "askQuestion"})
            => calls'[p].route = "online"
        /\ (calls'[p].route = "online"
                /\ calls'[p].op \in {"processDocument", "askQuestion"})
            => /\ calls'[p].pc \in {"fetch", "done", "failed"}
               /\ calls'[p].retriever = NullStore
               /\ calls'[p].prompt = NoPrompt
               /\ calls'[p] # calls[p] => UNCHANGED <<vectorStore, chatHistory>>]_vars

\* processDocument and askQuestion have both been answered by the backend
\* while there is no local index and no conversation.
C23_Witness ==
    \E p, q \in Calls :
        /\ calls[p].op = "processDocument" /\ calls[p].route = "online"
        /\ calls[p].pc = "done" /\ calls[p].response.ok
        /\ calls[q].op = "askQuestion" /\ calls[q].route = "online"
        /\ calls[q].pc = "done" /\ calls[q].response.ok
        /\ vectorStore.isNull
        /\ \A id \in ChatIds : ~chatHistory[id].has

\* C24: a getContextualSummary call on the offline route carries as its topic
\* the label of the node of the graph whose id is the clicked id, and
\* "Unknown topic" when the graph has no node with that id; it proceeds as
\* an offline topic summary and has sent no request.
C24_ContextualOfflineUsesNodeLabel ==
    \A p \in Calls :
        (calls[p].op = "getContextualSummary" /\ calls[p].route = "offline") =>
            /\ calls[p].fetches = 0
            /\ calls[p].response = NoResponse
            /\ calls[p].pc \in {"retrieve", "generate", "done", "failed"}
            /\ \A g \in Graphs :
                IF \E i \in 1..Len(g) : NumberToString(g[i].id) = calls[p].clickedNodeId
                THEN \E i \in 1..Len(g) :
                        /\ NumberToString(g[i].id) = calls[p].clickedNodeId
                        /\ calls[p].topic = g[i].label
                ELSE calls[p].topic = "Unknown topic"

\* ------------------------------------------------------- claim C25

\* Offline processDocument call p resolves with its ProcessResult.
ProcessResolves(p) ==
    /\ calls[p].op = "processDocument" /\ calls[p].route = "offline"
    /\ calls[p].pc # "done" /\ calls'[p].pc = "done"

\* C25: whenever an offline processDocument call resolves, the Vector Index
\* holds the chunks of the document whose graph the call returns, and the
\* index changes in no other step; so after any interleaving the index is
\* that of the document returned by the call that resolved last.
C25_IndexIsOfLatestResult ==
    [][/\ \A p \in Calls :
            ProcessResolves(p) =>
                vectorStore' = FromDocuments(ChunksOf(calls'[p].result.graphData))
       /\ (\A p \in Calls : ~ProcessResolves(p)) => vectorStore' = vectorStore]_vars

\* Two offline processDocument calls have overlapped and resolved with the
\* graphs of different documents; the one that started second resolved last
\* and the index holds the chunks of the document it returned.
C25_Witness ==
    \E p, q \in Calls :
        /\ calls[p].op = "processDocument" /\ calls[p].pc = "done"
        /\ calls[q].op = "processDocument" /\ calls[q].pc = "done"
        /\ calls[q].overlap /\ ~calls[p].overlap
        /\ calls[p].result.graphData # calls[q].result.graphData
        /\ vectorStore = FromDocuments(ChunksOf(calls[q].result.graphData))

\* ------------------------------------------------------- claim C26

\* The step is one of processDocument call p: its start, a stage of its
\* pipeline, its end, or the return to its caller.
ProcessDocumentSteps(p) ==
    /\ calls'[p] # calls[p]
    /\ calls[p].op = "processDocument" \/ calls'[p].op = "processDocument"

\* askQuestion call p builds its prompt.
PromptBuilt(p) ==
    /\ calls[p].op = "askQuestion"
    /\ calls[p].pc = "retrieve" /\ calls'[p].pc = "generate"

\* C26: no step of an offline processDocument call, successful or failed,
\* changes the Conversation Store; every offline ProcessResult has the
\* documentId "local-memory"; and the prompt of an askQuestion call holds
\* the turns stored under its conversation id at that moment, whatever
\* document the index held when they were stored.
C26_ReplacingDocumentKeepsHistory ==
    [][/\ \A p \in Calls : ProcessDocumentSteps(p) => chatHistory' = chatHistory
       /\ \A p \in Calls :
            ProcessResolves(p) => calls'[p].result.documentId = "local-memory"
       /\ \A p \in Calls :
            PromptBuilt(p) =>
                calls'[p].prompt.history = chatHistory[calls[p].chatId].turns]_vars

\* docB has replaced docA in the index after a turn was stored under docA's
\* index, and the prompt of a later askQuestion on the same id holds docB's
\* chunks as context and that turn, the first one stored, in its history.
C26_Witness ==
    \E p \in Calls :
        /\ calls[p].op = "askQuestion" /\ calls[p].pc = "generate"
        /\ calls[p].prompt.context = ChunksOf("docB")
        /\ vectorStore = FromDocuments(ChunksOf("docB"))
        /\ appended["c1"] # <<>>
        /\ Len(appended["c1"]) <= HistoryCap
        /\ calls[p].prompt.history # <<>>
        /\ calls[p].prompt.history[1] = appended["c1"][1]

\* ------------------------------------------------------- claim C27

\* The step is one of askQuestion call p: its start, the end of its
\* retrieval, the end of its generation, or the return to its caller.
AskQuestionSteps(p) ==
    /\ calls'[p] # calls[p]
    /\ calls[p].op = "askQuestion" \/ calls'[p].op = "askQuestion"

\* The conversation id of the askQuestion call whose step this is.
ChatIdOfStep(p) == IF calls[p].op = "askQuestion" THEN calls[p].chatId ELSE calls'[p].chatId

\* C27: no step of an askQuestion call on conversation id c changes what is
\* stored for another id: for every id other than c the entry is the same
\* before and after the step, whatever calls on other ids are in flight.
C27_AskChangesOwnHistoryOnly ==
    [][\A p \in Calls :
            AskQuestionSteps(p) =>
                \A d \in ChatIds \ {ChatIdOfStep(p)} : chatHistory'[d] = chatHistory[d]]_vars

\* Two askQuestion calls on different ids have overlapped: the one issued
\* second has stored its turn while the one issued first is still
\* generating, and each id holds what its own call stored.
C27_Witness ==
    \E p, q \in Calls :
        /\ calls[p].op = "askQuestion" /\ calls[p].pc = "done" /\ calls[p].route = "offline"
        /\ calls[q].op = "askQuestion" /\ calls[q].pc = "generate"
        /\ calls[q].question < calls[p].question
        /\ calls[p].chatId # calls[q].chatId
        /\ chatHistory[calls[p].chatId].turns =
                <<[human |-> calls[p].question, ai |-> calls[p].result.answer]>>
        /\ chatHistory[calls[q].chatId] = [has |-> TRUE, turns |-> <<>>]

\* ------------------------------------------------------- claim C28

\* Offline askQuestion call p resolves with its answer.
AskResolves(p) ==
    /\ calls[p].op = "askQuestion" /\ calls[p].route = "offline"
    /\ calls[p].pc # "done" /\ calls'[p].pc = "done"

\* The turns stored for every conversation id stay as they are.
TurnsUnchanged == \A c \in ChatIds : chatHistory'[c].turns = chatHistory[c].turns

\* Every stored turn holds the answer generated for its own question.
TurnsPaired ==
    \A c \in ChatIds : \A i \in 1..Len(chatHistory[c].turns) :
        chatHistory[c].turns[i].ai = chatHistory[c].turns[i].human

\* C28: every stored turn pairs a question with the answer generated for
\* that question; the step in which an offline askQuestion call resolves
\* appends exactly one turn to the history of the call's id, made of the
\* call's question and the answer the call returns, which was generated for
\* that question; no other step, the failure of a call included, changes
\* the stored turns of any id.
C28_OneTurnPerSuccessfulCall ==
    [][/\ TurnsPaired'
       /\ \A p \in Calls :
            AskResolves(p) =>
                LET id == calls[p].chatId
                    turn == [human |-> calls[p].question, ai |-> calls'[p].result.answer]
                IN  /\ turn.ai = calls[p].prompt.question
                    /\ calls[p].prompt.question = calls[p].question
                    /\ chatHistory'[id].turns =
                            LastN(Append(chatHistory[id].turns, turn), HistoryCap)
       /\ (\A p \in Calls : ~AskResolves(p)) => TurnsUnchanged]_vars

\* Two askQuestion calls on one id have overlapped and both succeeded: the
\* one issued second resolved first, so its turn is stored first, and each
\* call has appended exactly its own turn.
C28_Witness ==
    \E c \in ChatIds, m, n \in 1..MaxAskOffline :
        /\ m < n
        /\ chatHistory[c].turns = <<[human |-> n, ai |-> n], [human |-> m, ai |-> m]>>

\* ------------------------------------------------------- claims C29 and C30

\* The askQuestion requests of the ChatInterface whose promise is pending.
InFlight == {p \in Calls : calls[p].op = "askQuestion" /\ calls[p].pc \in {"retrieve", "generate"}}

\* C29: one ChatInterface has at most one askQuestion request in flight at
\* any time: a message submitted while a request is pending is dropped, also
\* when it is submitted before the component has rendered again.
C29_OneRequestInFlight == Cardinality(InFlight) <= 1

\* The AI messages (the welcome message apart) that belong to request n.
AiMessagesOf(n) ==
    {j \in 1..Len(chatInterface.messages) :
        /\ chatInterface.messages[j].type = "ai"
        /\ chatInterface.messages[j].request = n}

\* Request n has been issued and handleMessageSubmission has not resumed.
Awaited(n) == \E p \in Calls : calls[p].op = "askQuestion" /\ calls[p].question = n

\* Every accepted message has no AI message while its request is awaited and
\* exactly one afterwards, which stands after the user message and holds the
\* answer to that request or the apology.
OneAiMessagePerAccepted ==
    \A i \in 1..Len(chatInterface.messages) :
        LET m == chatInterface.messages[i]
        IN  m.type = "user" =>
                /\ Awaited(m.request) => AiMessagesOf(m.request) = {}
                /\ ~Awaited(m.request) =>
                        \E j \in AiMessagesOf(m.request) :
                            /\ AiMessagesOf(m.request) = {j}
                            /\ i < j
                            /\ chatInterface.messages[j].content
                                    \in {AnswerText(m.request), Apology}

\* The askQuestion promise of call p has settled.
PromiseSettled(p) == calls[p].op = "askQuestion" /\ calls[p].pc \in {"done", "failed"}

\* C30: every accepted message gets exactly one AI message once its
\* askQuestion promise has settled, after the user message, the answer on
\* success and the apology on failure; and whenever a promise has settled,
\* isThinking returns to false and the component is rendered with
\* isThinking false, so that the input is enabled again.
C30_SettledRequestIsAnswered ==
    /\ []OneAiMessagePerAccepted
    /\ (\E p \in Calls : PromiseSettled(p))
            ~> (~chatInterface.isThinking /\ ~chatInterface.rendered.isThinking)

\* Two accepted messages have been answered, one with the answer and one
\* with the apology; isThinking is false and rendered.
C30_Witness ==
    /\ \E i, j \in 1..Len(chatInterface.messages) :
            /\ chatInterface.messages[i].content = Apology
            /\ chatInterface.messages[j].content.kind = "answer"
    /\ InFlight = {}
    /\ MicrotasksDrained
    /\ ~chatInterface.isThinking
    /\ ~chatInterface.rendered.isThinking

====
